---------------------------- MODULE Spec2Model ----------------------------
(***************************************************************************)
(* CGAL::Deform_mesh (Surface_modeling/include/CGAL/Deform_mesh.h): the    *)
(* registry of ROI vertices and handle groups, the region-of-solution      *)
(* builder, the Laplacian assembly, preprocess() and the deformation       *)
(* calls, as a state machine with one action per public member function.   *)
(*                                                                         *)
(* Abstractions: a Point is one integer coordinate in Pos; a rotation      *)
(* matrix is the token RotIdentity (setIdentity) or RotFitted (written by  *)
(* the SVD fit); the value the sparse solver returns for a free row is any *)
(* value of Pos.                                                           *)
(***************************************************************************)
EXTENDS Integers, Sequences, FiniteSets

(***************************************************************************)
(* Bounds of the model.                                                    *)
(***************************************************************************)
MaxPos == 1       \* coordinates range over 0..MaxPos
MaxRoi == 2       \* Spec inserts into the ROI while it has fewer vertices
MaxGroups == 1    \* create_handle_group is explored up to this many groups
MaxIter == 3      \* iteration counts passed to deform
MaxVertex == 1    \* Spec explores the calls for the vertices 0..MaxVertex
MaxHandle == 0    \* vertices made handles: the first MaxHandle + 1 of the calls'
MaxRegistryRoi == 3  \* RegistrySpec inserts into the ROI while it has fewer
MaxRegistryGroups == 2  \* RegistrySpec creates groups up to this many
MaxTranslateGroups == 2 \* TranslateSpec creates groups up to this many
MaxComponentsRoi == 4   \* ComponentsSpec inserts into the ROI while it has fewer
MaxFailureIter == 1     \* FailureSpec calls deform with up to this many iterations

Pos == 0..MaxPos

\* ros_id_map's "not assigned" mark, std::size_t(-1)
NoId == -1

(***************************************************************************)
(* The polyhedron: a strip of two triangles and a separate triangle.  A    *)
(* facet <<a, b, c>> has the halfedges a->b, b->c, c->a; the opposite of a *)
(* halfedge that lies in no facet is a border halfedge.                    *)
(***************************************************************************)
Strip == { <<0, 1, 2>>, <<2, 1, 3>> }
Isolated == { <<4, 5, 6>> }
Facets == Strip \cup Isolated

Vertices == UNION { {f[1], f[2], f[3]} : f \in Facets }

FacetHalfedges ==
    UNION { { <<f[1], f[2]>>, <<f[2], f[3]>>, <<f[3], f[1]>> } : f \in Facets }

Halfedges == FacetHalfedges \cup { <<h[2], h[1]>> : h \in FacetHalfedges }

\* boost::get(CGAL::edge_is_border, polyhedron, e)
edge_is_border(h) == h \notin FacetHalfedges

\* CGAL::opposite_edge
opposite_edge(h) == <<h[2], h[1]>>

\* the stored position of every vertex before any deformation
InitPoint == [v \in Vertices |-> v % (MaxPos + 1)]

\* edge_weight[id(e)], filled once by the constructor from the weight functor
edge_weight(h) == IF h[1] < h[2] THEN 1 ELSE 2

RECURSIVE SortedSeq(_)
SortedSeq(S) ==
    IF S = {} THEN <<>>
    ELSE LET m == CHOOSE x \in S : \A y \in S : x <= y
         IN  <<m>> \o SortedSeq(S \ {m})

InEdgeSources ==
    [vd \in Vertices |-> SortedSeq({ h[1] : h \in { g \in Halfedges : g[2] = vd } })]

\* boost::in_edges(vd, polyhedron), as the sequence of the edges' sources
in_edges(vd) == InEdgeSources[vd]

Range(s) == { s[i] : i \in 1..Len(s) }

\* variant: the last element is moved into the place of v
RemoveBySwap(s, v) ==
    LET at == { i \in 1..Len(s) : s[i] = v }
    IN  IF at = {} THEN s
        ELSE LET k == CHOOSE i \in at : \A j \in at : i <= j
             IN  [i \in 1..(Len(s) - 1) |-> IF i = k THEN s[Len(s)] ELSE s[i]]

RECURSIVE Remove(_, _)
\* std::find followed by erase: removes the first occurrence of v
Remove(s, v) ==
    IF s = <<>> THEN <<>>
    ELSE IF Head(s) = v THEN Tail(s)
    ELSE <<Head(s)>> \o Remove(Tail(s), v)

RotIdentity == "identity"
RotFitted == "fitted"

VARIABLES
    point,              \* vertex -> stored position in the polyhedron
    original,           \* std::vector<Point> original, indexed by ros id + 1
    solution,           \* std::vector<Point> solution, indexed by ros id + 1
    roi,                \* std::vector<vertex_descriptor> roi
    ros,                \* std::vector<vertex_descriptor> ros
    ros_id_map,         \* vertex -> ros id, NoId when not assigned
    is_roi_map,         \* vertex -> BOOLEAN
    is_hdl_map,         \* vertex -> BOOLEAN
    rot_mtr,            \* rotation of each ros vertex, indexed by ros id + 1
    m_solver,           \* the solver: the matrix it factorized and the outcome
    iterations,         \* number of maximal iterations
    tolerance,          \* 0: no energy based termination, 1: a positive tolerance
    need_preprocess,    \* is there any need to call preprocess()
    handle_group_list,  \* std::list<std::list<vertex_descriptor>>
    trace,              \* the last call: its name, result and what it ran
    written,            \* history: ROI vertex -> {the target last written for it}
    target              \* history: handle -> {the target it is constrained to}

vars == << point, original, solution, roi, ros, ros_id_map, is_roi_map,
           is_hdl_map, rot_mtr, m_solver, iterations, tolerance,
           need_preprocess, handle_group_list, trace, written, target >>

\* what a call leaves in trace
Call(op, ret, rebuilt, iters, evals) ==
    [op |-> op, ret |-> ret, rebuilt |-> rebuilt, iters |-> iters, evals |-> evals]

is_roi(vd) == is_roi_map[vd]
is_handle(vd) == is_hdl_map[vd]
ros_id(vd) == ros_id_map[vd]


(***************************************************************************)
(* region_of_solution() and its helper.                                    *)
(***************************************************************************)
RECURSIVE RingFoldAll(_, _)
\* variant: a neighbour gets a new id whether or not it has one
RingFoldAll(nbrs, st) ==
    IF nbrs = <<>> THEN st
    ELSE RingFoldAll(Tail(nbrs),
                     [map  |-> [st.map EXCEPT ![Head(nbrs)] = st.next],
                      next |-> st.next + 1,
                      vec  |-> Append(st.vec, Head(nbrs))])

RECURSIVE RingFold(_, _)
RingFold(nbrs, st) ==
    IF nbrs = <<>> THEN st
    ELSE LET vt == Head(nbrs)
         IN  IF st.map[vt] = NoId
             THEN RingFold(Tail(nbrs),
                           [map  |-> [st.map EXCEPT ![vt] = st.next],
                            next |-> st.next + 1,
                            vec  |-> Append(st.vec, vt)])
             ELSE RingFold(Tail(nbrs), st)

\* st = [map: the ros id map, next: next_id, vec: push_vector]
assign_ros_id_to_one_ring(vd, st) == RingFold(in_edges(vd), st)

RECURSIVE AssignRoiIds(_, _)
\* for(i < roi.size()) ros_id(roi[i]) = i;
AssignRoiIds(i, map) ==
    IF i > Len(roi) THEN map
    ELSE AssignRoiIds(i + 1, [map EXCEPT ![roi[i]] = i - 1])

RECURSIVE RingsOf(_, _, _, _)
\* for(i = from; i <= upto; i++) assign_ros_id_to_one_ring(src[i], next, vec)
RingsOf(src, i, upto, st) ==
    IF i > upto THEN st
    ELSE RingsOf(src, i + 1, upto, assign_ros_id_to_one_ring(src[i], st))

\* std::vector::resize: keeps the leading elements, the new ones hold `fill`
Resize(s, n, fill) == [j \in 1..n |-> IF j <= Len(s) THEN s[j] ELSE fill]

\* the content of a vector element that was never written
Uninit == "uninit"

\* variant: no vertex is written back
EvictNothing == point

\* variant: the vertices that are no longer ROI get their last solution
EvictToSolution ==
    [v \in Vertices |->
        IF v \in Range(ros) /\ ~is_roi(v)
        THEN solution[ros_id_map[v] + 1]
        ELSE point[v]]

\* the write-back of the vertices that are no longer ROI (old ros, old ids)
EvictWriteBack ==
    [v \in Vertices |->
        IF v \in Range(ros) /\ ~is_roi(v)
        THEN original[ros_id_map[v] + 1]
        ELSE point[v]]

RECURSIVE InitRotations(_, _, _, _)
InitRotations(i, new_ros, new_map, rot) ==
    IF i > Len(rot) THEN rot
    ELSE LET v_ros_id == new_map[new_ros[i]]
             old_id   == ros_id_map[new_ros[i]]
         IN  InitRotations(i + 1, new_ros, new_map,
                [rot EXCEPT ![v_ros_id + 1] =
                    IF old_id # NoId /\ old_id < Len(rot_mtr)
                    THEN rot_mtr[old_id + 1]
                    ELSE RotIdentity])

RECURSIVE InitRosPositionsOrigin(_, _, _, _, _)
\* variant: a vertex that is not carried over gets the origin, not its position
InitRosPositionsOrigin(i, new_ros, new_map, pt, so) ==
    IF i > Len(new_ros) THEN so
    ELSE LET v        == new_ros[i]
             v_ros_id == new_map[v]
             old_id   == ros_id_map[v]
             carried  == is_roi(v) /\ old_id # NoId
         IN  InitRosPositionsOrigin(i + 1, new_ros, new_map, pt,
                [solution |-> [so.solution EXCEPT ![v_ros_id + 1] =
                                  IF carried THEN solution[old_id + 1] ELSE 0],
                 original |-> [so.original EXCEPT ![v_ros_id + 1] =
                                  IF carried THEN original[old_id + 1] ELSE 0]])

RECURSIVE InitRosPositionsFresh(_, _, _, _, _)
\* variant: every ros vertex takes its mesh position
InitRosPositionsFresh(i, new_ros, new_map, pt, so) ==
    IF i > Len(new_ros) THEN so
    ELSE InitRosPositionsFresh(i + 1, new_ros, new_map, pt,
            [solution |-> [so.solution EXCEPT ![new_map[new_ros[i]] + 1] =
                              pt[new_ros[i]]],
             original |-> [so.original EXCEPT ![new_map[new_ros[i]] + 1] =
                              pt[new_ros[i]]]])

RECURSIVE InitRosPositions(_, _, _, _, _)
\* so = [solution, original]; the loop over ros
InitRosPositions(i, new_ros, new_map, pt, so) ==
    IF i > Len(new_ros) THEN so
    ELSE LET v        == new_ros[i]
             v_ros_id == new_map[v]
             old_id   == ros_id_map[v]
             carried  == is_roi(v) /\ old_id # NoId
         IN  InitRosPositions(i + 1, new_ros, new_map, pt,
                [solution |-> [so.solution EXCEPT ![v_ros_id + 1] =
                                  IF carried THEN solution[old_id + 1] ELSE pt[v]],
                 original |-> [so.original EXCEPT ![v_ros_id + 1] =
                                  IF carried THEN original[old_id + 1] ELSE pt[v]]])

RECURSIVE InitOutsidePositions(_, _, _, _, _)
\* the loop over outside_ros
InitOutsidePositions(i, outside_ros, new_map, pt, so) ==
    IF i > Len(outside_ros) THEN so
    ELSE LET v_ros_id == new_map[outside_ros[i]]
         IN  InitOutsidePositions(i + 1, outside_ros, new_map, pt,
                [solution |-> [so.solution EXCEPT ![v_ros_id + 1] = pt[outside_ros[i]]],
                 original |-> [so.original EXCEPT ![v_ros_id + 1] = pt[outside_ros[i]]]])

\* the arrays of the rebuilt region, filled by the three loops
RosArrays(pt, new_ros, new_map, outside_ros, rot, so) ==
    [point |-> pt, ros |-> new_ros, ros_id_map |-> new_map, rot_mtr |-> rot,
     solution |-> so.solution, original |-> so.original,
     outside_ros |-> outside_ros]

\* variant: the rotation array gets the size of the roi
RosFillRoiRotations(pt, new_ros, new_map, outside_ros) ==
    RosArrays(pt, new_ros, new_map, outside_ros,
        Resize(rot_mtr, Len(roi), RotIdentity),
        InitOutsidePositions(1, outside_ros, new_map, pt,
            InitRosPositions(1, new_ros, new_map, pt,
                [solution |-> Resize(solution, Len(new_ros) + Len(outside_ros), Uninit),
                 original |-> Resize(original, Len(new_ros) + Len(outside_ros), Uninit)])))

RosFill(pt, new_ros, new_map, outside_ros) ==
    RosArrays(pt, new_ros, new_map, outside_ros,
        InitRotations(1, new_ros, new_map, Resize(rot_mtr, Len(new_ros), Uninit)),
        InitOutsidePositions(1, outside_ros, new_map, pt,
            InitRosPositions(1, new_ros, new_map, pt,
                [solution |-> Resize(solution, Len(new_ros) + Len(outside_ros), Uninit),
                 original |-> Resize(original, Len(new_ros) + Len(outside_ros), Uninit)])))

\* outer: the ring of the boundary vertices ros[roi.size()..], into outside_ros
RosOutside(pt, new_ros, outer) == RosFill(pt, new_ros, outer.map, outer.vec)

\* variant: the ring around the boundary vertices gets no ids
RosBoundaryOnly(pt, ring) == RosFill(pt, ring.vec, ring.map, <<>>)

\* ring: the ring of the roi vertices, pushed onto ros
RosBoundary(pt, ring) ==
    RosOutside(pt, ring.vec,
        RingsOf(ring.vec, Len(roi) + 1, Len(ring.vec),
                [map |-> ring.map, next |-> ring.next, vec |-> <<>>]))

\* the state region_of_solution() leaves, computed from the current one
region_of_solution ==
    RosBoundary(EvictWriteBack,
        RingsOf(roi, 1, Len(roi),
                [map  |-> AssignRoiIds(1, [v \in Vertices |-> NoId]),
                 next |-> Len(roi), vec |-> roi]))

(***************************************************************************)
(* The linear system.  A matrix of size n is a sequence of n rows, each a  *)
(* sequence of n coefficients; row and column i are at index i + 1.        *)
(***************************************************************************)
\* Sparse_linear_solver_with_prefactor::Matrix A(n)
ZeroMatrix(n) == [i \in 1..n |-> [j \in 1..n |-> 0]]

\* A.set_coef(i, j, val, true): contributions to one cell add up
set_coef(A, i, j, val) == [A EXCEPT ![i + 1][j + 1] = @ + val]

\* the template parameter deformation_type: the engine is instantiated with
\* the one-ring variant
deformation_type == "ORIGINAL_ARAP"

\* variant: the handles get the Laplacian rows
IsHandleRow(vi) == is_handle(vi)

\* row vi of the matrix belongs to a free vertex: roi and not handle
IsFree(vi) == is_roi(vi) /\ ~is_handle(vi)

RECURSIVE ArapRowOneWeight(_, _, _, _, _)
\* variant: the weight of the opposite edge is left out
ArapRowOneWeight(vi, srcs, map, A, diagonal) ==
    IF srcs = <<>> THEN set_coef(A, map[vi], map[vi], diagonal)
    ELSE LET vj  == Head(srcs)
             wij == edge_weight(<<vj, vi>>)
         IN  ArapRowOneWeight(vi, Tail(srcs), map,
                              set_coef(A, map[vi], map[vj], -wij),
                              diagonal + wij)

RECURSIVE ArapRow(_, _, _, _, _)
\* the loop over the in-edges of the free vertex vi; acc = [A, diagonal]
ArapRow(vi, srcs, map, A, diagonal) ==
    IF srcs = <<>> THEN set_coef(A, map[vi], map[vi], diagonal)
    ELSE LET vj  == Head(srcs)
             wij == edge_weight(<<vj, vi>>)
             wji == edge_weight(opposite_edge(<<vj, vi>>))
             total_weight == wij + wji
         IN  ArapRow(vi, Tail(srcs), map,
                     set_coef(A, map[vi], map[vj], -total_weight),
                     diagonal + total_weight)

RECURSIVE ArapRows(_, _, _, _)
ArapRows(k, rs, map, A) ==
    IF k > Len(rs) THEN A
    ELSE LET vi == rs[k]
         IN  ArapRows(k + 1, rs, map,
                      IF IsFree(vi)
                      THEN ArapRow(vi, in_edges(vi), map, A, 0)
                      ELSE set_coef(A, map[vi], map[vi], 1))

\* the matrix assemble_laplacian_arap fills for the ros rs with the ids map
assemble_laplacian_arap(rs, map) == ArapRows(1, rs, map, ZeroMatrix(Len(rs)))

OutEdgeTargets ==
    [vi \in Vertices |-> SortedSeq({ h[2] : h \in { g \in Halfedges : g[1] = vi } })]

\* boost::out_edges(vi, polyhedron), as the sequence of the edges' targets
out_edges(vi) == OutEdgeTargets[vi]

RECURSIVE SpokesRow(_, _, _, _, _)
SpokesRow(vi, tgts, map, A, diagonal) ==
    IF tgts = <<>> THEN set_coef(A, map[vi], map[vi], diagonal)
    ELSE LET vj  == Head(tgts)
             e   == <<vi, vj>>
             opp == opposite_edge(e)
             total_weight ==
                 (IF ~edge_is_border(e) THEN edge_weight(e) ELSE 0)
               + (IF ~edge_is_border(opp) THEN edge_weight(opp) ELSE 0)
         IN  SpokesRow(vi, Tail(tgts), map,
                       set_coef(A, map[vi], map[vj], -total_weight),
                       diagonal + total_weight)

RECURSIVE SpokesRows(_, _, _, _)
SpokesRows(k, rs, map, A) ==
    IF k > Len(rs) THEN A
    ELSE LET vi == rs[k]
         IN  SpokesRows(k + 1, rs, map,
                        IF IsFree(vi)
                        THEN SpokesRow(vi, out_edges(vi), map, A, 0)
                        ELSE set_coef(A, map[vi], map[vi], 1))

assemble_laplacian_spokes_and_rims(rs, map) ==
    SpokesRows(1, rs, map, ZeroMatrix(Len(rs)))

assemble_laplacian(rs, map) ==
    IF deformation_type = "SPOKES_AND_RIMS"
    THEN assemble_laplacian_spokes_and_rims(rs, map)
    ELSE assemble_laplacian_arap(rs, map)

\* row i (an index of A) has the single coefficient 1, on the diagonal
IdentityRow(A, i) ==
    /\ A[i][i] = 1
    /\ \A j \in 1..Len(A) : j # i => A[i][j] = 0

RECURSIVE Anchored(_, _)
\* the rows tied to an identity row through non-zero coefficients
Anchored(A, R) ==
    LET more == { i \in 1..Len(A) : i \notin R /\ \E j \in R : A[i][j] # 0 }
    IN  IF more = {} THEN R ELSE Anchored(A, R \cup more)

\* m_solver.pre_factor(A, D): fails exactly on a rank deficient system, one
\* with a free row that no chain of coefficients ties to a constrained row
pre_factor(A) ==
    Anchored(A, { i \in 1..Len(A) : IdentityRow(A, i) }) = 1..Len(A)

(***************************************************************************)
(* preprocess(): the state it leaves and what it returns, computed from    *)
(* the current state.                                                      *)
(***************************************************************************)
Factorized(r, A, ok) ==
    [point |-> r.point, ros |-> r.ros, ros_id_map |-> r.ros_id_map,
     rot_mtr |-> r.rot_mtr, solution |-> r.solution, original |-> r.original,
     m_solver |-> [A |-> A, ok |-> ok], need_preprocess |-> FALSE,
     ret |-> ok, rebuilt |-> TRUE]

Assembled(r, A) == Factorized(r, A, pre_factor(A))

Rebuilt(r) == Assembled(r, assemble_laplacian(r.ros, r.ros_id_map))

\* variant: the flag is cleared without the rebuild
preprocess_skips_rebuild ==
    [point |-> point, ros |-> ros, ros_id_map |-> ros_id_map,
     rot_mtr |-> rot_mtr, solution |-> solution, original |-> original,
     m_solver |-> m_solver, need_preprocess |-> FALSE,
     ret |-> TRUE, rebuilt |-> FALSE]

preprocess ==
    IF ~need_preprocess
    THEN [point |-> point, ros |-> ros, ros_id_map |-> ros_id_map,
          rot_mtr |-> rot_mtr, solution |-> solution, original |-> original,
          m_solver |-> m_solver, need_preprocess |-> need_preprocess,
          ret |-> TRUE, rebuilt |-> FALSE]
    ELSE Rebuilt(region_of_solution)

(***************************************************************************)
(* The registry.  A Handle_group is the position of the group in           *)
(* handle_group_list.                                                      *)
(***************************************************************************)
Groups == 1..Len(handle_group_list)

\* the vertices the calls are explored for
Args == { v \in Vertices : v <= MaxVertex }

NoTargets == [v \in Vertices |-> {}]

\* history: the vertices of hs stop being handles
Untarget(hs) == [v \in Vertices |-> IF v \in hs THEN {} ELSE target[v]]

\* history: after a rebuild every handle is constrained to its solution slot
Retarget(p, hdl, tg) ==
    [v \in Vertices |->
        IF hdl[v] /\ tg[v] = {} /\ p.rebuilt
        THEN {p.solution[p.ros_id_map[v] + 1]}
        ELSE tg[v]]

Init ==
    /\ point = InitPoint
    /\ original = <<>>
    /\ solution = <<>>
    /\ roi = <<>>
    /\ ros = <<>>
    /\ ros_id_map = [v \in Vertices |-> NoId]
    /\ is_roi_map = [v \in Vertices |-> FALSE]
    /\ is_hdl_map = [v \in Vertices |-> FALSE]
    /\ rot_mtr = <<>>
    /\ m_solver = [A |-> <<>>, ok |-> FALSE]
    /\ iterations = MaxIter
    /\ tolerance = 1
    /\ need_preprocess = TRUE
    /\ handle_group_list = <<>>
    /\ trace = Call("Deform_mesh", "void", FALSE, 0, 0)
    /\ written = NoTargets
    /\ target = NoTargets

reset ==
    /\ need_preprocess' = TRUE
    /\ roi' = <<>>
    /\ handle_group_list' = <<>>
    /\ is_roi_map' = [v \in Vertices |-> FALSE]
    /\ is_hdl_map' = [v \in Vertices |-> FALSE]
    /\ trace' = Call("reset", "void", FALSE, 0, 0)
    /\ target' = NoTargets
    /\ written' = NoTargets
    /\ UNCHANGED << point, original, solution, ros, ros_id_map, rot_mtr,
                    m_solver, iterations, tolerance >>

create_handle_group ==
    /\ handle_group_list' = Append(handle_group_list, <<>>)
    /\ trace' = Call("create_handle_group", "void", FALSE, 0, 0)
    /\ UNCHANGED << point, original, solution, roi, ros, ros_id_map, is_roi_map,
                    is_hdl_map, rot_mtr, m_solver, iterations, tolerance,
                    need_preprocess, written, target >>

\* variant: a new ROI vertex does not raise the flag
insert_roi_result_keeps_flag(vd) ==
    IF is_roi(vd)
    THEN [is_roi_map |-> is_roi_map, roi |-> roi,
          need_preprocess |-> need_preprocess, ret |-> "false"]
    ELSE [is_roi_map |-> [is_roi_map EXCEPT ![vd] = TRUE],
          roi |-> Append(roi, vd),
          need_preprocess |-> need_preprocess, ret |-> "true"]

\* what insert_roi(vd) leaves in the registry and returns
insert_roi_result(vd) ==
    IF is_roi(vd)
    THEN [is_roi_map |-> is_roi_map, roi |-> roi,
          need_preprocess |-> need_preprocess, ret |-> "false"]
    ELSE [is_roi_map |-> [is_roi_map EXCEPT ![vd] = TRUE],
          roi |-> Append(roi, vd),
          need_preprocess |-> TRUE, ret |-> "true"]

\* variant: a new ROI vertex is pushed onto ros at once
insert_roi_eager(vd) ==
    LET r == insert_roi_result(vd)
    IN  /\ is_roi_map' = r.is_roi_map
        /\ roi' = r.roi
        /\ ros' = IF r.ret = "true" /\ vd \notin Range(ros)
                  THEN Append(ros, vd) ELSE ros
        /\ need_preprocess' = r.need_preprocess
        /\ trace' = Call("insert_roi", r.ret, FALSE, 0, 0)
        /\ UNCHANGED << point, original, solution, ros_id_map, is_hdl_map,
                        rot_mtr, m_solver, iterations, tolerance,
                        handle_group_list, written, target >>

insert_roi(vd) ==
    LET r == insert_roi_result(vd)
    IN  /\ is_roi_map' = r.is_roi_map
        /\ roi' = r.roi
        /\ need_preprocess' = r.need_preprocess
        /\ trace' = Call("insert_roi", r.ret, FALSE, 0, 0)
        /\ UNCHANGED << point, original, solution, ros, ros_id_map, is_hdl_map,
                        rot_mtr, m_solver, iterations, tolerance,
                        handle_group_list, written, target >>

\* variant: a vertex that is a handle already is inserted again
insert_handle_unchecked(handle_group, vd) ==
    LET r == insert_roi_result(vd)
    IN  /\ need_preprocess' = TRUE
        /\ is_roi_map' = r.is_roi_map
        /\ roi' = r.roi
        /\ is_hdl_map' = [is_hdl_map EXCEPT ![vd] = TRUE]
        /\ handle_group_list' =
               [handle_group_list EXCEPT ![handle_group] = Append(@, vd)]
        /\ trace' = Call("insert_handle", "true", FALSE, 0, 0)
        /\ UNCHANGED << point, original, solution, ros, ros_id_map, rot_mtr,
                        m_solver, iterations, tolerance, written, target >>

insert_handle(handle_group, vd) ==
    IF is_handle(vd)
    THEN /\ trace' = Call("insert_handle", "false", FALSE, 0, 0)
         /\ UNCHANGED << point, original, solution, roi, ros, ros_id_map,
                         is_roi_map, is_hdl_map, rot_mtr, m_solver, iterations,
                         tolerance, need_preprocess, handle_group_list,
                         written, target >>
    ELSE LET r == insert_roi_result(vd)
         IN  /\ need_preprocess' = TRUE
             /\ is_roi_map' = r.is_roi_map
             /\ roi' = r.roi
             /\ is_hdl_map' = [is_hdl_map EXCEPT ![vd] = TRUE]
             /\ handle_group_list' =
                    [handle_group_list EXCEPT ![handle_group] = Append(@, vd)]
             /\ trace' = Call("insert_handle", "true", FALSE, 0, 0)
             /\ UNCHANGED << point, original, solution, ros, ros_id_map, rot_mtr,
                             m_solver, iterations, tolerance, written, target >>

\* variant: the group goes and its vertices keep their handle marks
erase_handle_group_keeps_marks(handle_group) ==
    /\ need_preprocess' = TRUE
    /\ handle_group_list' =
           [i \in 1..(Len(handle_group_list) - 1) |->
               IF i < handle_group THEN handle_group_list[i]
               ELSE handle_group_list[i + 1]]
    /\ trace' = Call("erase_handle_group", "void", FALSE, 0, 0)
    /\ target' = Untarget(Range(handle_group_list[handle_group]))
    /\ UNCHANGED << point, original, solution, roi, ros, ros_id_map, is_roi_map,
                    is_hdl_map, rot_mtr, m_solver, iterations, tolerance,
                    written >>

\* erase_handle(Handle_group): the group and its handles go
erase_handle_group(handle_group) ==
    /\ need_preprocess' = TRUE
    /\ is_hdl_map' = [v \in Vertices |->
                        IF v \in Range(handle_group_list[handle_group])
                        THEN FALSE ELSE is_hdl_map[v]]
    /\ handle_group_list' =
           [i \in 1..(Len(handle_group_list) - 1) |->
               IF i < handle_group THEN handle_group_list[i]
               ELSE handle_group_list[i + 1]]
    /\ trace' = Call("erase_handle_group", "void", FALSE, 0, 0)
    /\ target' = Untarget(Range(handle_group_list[handle_group]))
    /\ UNCHANGED << point, original, solution, roi, ros, ros_id_map, is_roi_map,
                    rot_mtr, m_solver, iterations, tolerance, written >>

\* variant: the handle leaves the group and keeps its handle mark
erase_handle_in_result_keeps_mark(handle_group, vd) ==
    IF is_handle(vd) /\ vd \in Range(handle_group_list[handle_group])
    THEN [is_hdl_map |-> is_hdl_map,
          handle_group_list |->
              [handle_group_list EXCEPT ![handle_group] = Remove(@, vd)],
          need_preprocess |-> TRUE, ret |-> "true"]
    ELSE [is_hdl_map |-> is_hdl_map, handle_group_list |-> handle_group_list,
          need_preprocess |-> need_preprocess, ret |-> "false"]

\* what erase_handle(Handle_group, vertex_descriptor) leaves and returns
erase_handle_in_result(handle_group, vd) ==
    IF is_handle(vd) /\ vd \in Range(handle_group_list[handle_group])
    THEN [is_hdl_map |-> [is_hdl_map EXCEPT ![vd] = FALSE],
          handle_group_list |->
              [handle_group_list EXCEPT ![handle_group] = Remove(@, vd)],
          need_preprocess |-> TRUE, ret |-> "true"]
    ELSE [is_hdl_map |-> is_hdl_map, handle_group_list |-> handle_group_list,
          need_preprocess |-> need_preprocess, ret |-> "false"]

erase_handle_in(handle_group, vd) ==
    LET r == erase_handle_in_result(handle_group, vd)
    IN  /\ is_hdl_map' = r.is_hdl_map
        /\ handle_group_list' = r.handle_group_list
        /\ need_preprocess' = r.need_preprocess
        /\ trace' = Call("erase_handle_in", r.ret, FALSE, 0, 0)
        /\ target' = IF r.ret = "true" THEN Untarget({vd}) ELSE target
        /\ UNCHANGED << point, original, solution, roi, ros, ros_id_map,
                        is_roi_map, rot_mtr, m_solver, iterations, tolerance,
                        written >>

\* variant: the handle is found in no group and stays where it is
erase_handle_result_not_found(vd) ==
    [is_hdl_map |-> is_hdl_map, handle_group_list |-> handle_group_list,
     need_preprocess |-> need_preprocess, ret |-> "false"]

\* what erase_handle(vertex_descriptor) leaves and returns: the search through
\* all groups stops at the first one that holds vd
erase_handle_result(vd) ==
    IF ~is_handle(vd)
    THEN [is_hdl_map |-> is_hdl_map, handle_group_list |-> handle_group_list,
          need_preprocess |-> need_preprocess, ret |-> "false"]
    ELSE LET holding == { g \in Groups : vd \in Range(handle_group_list[g]) }
         IN  IF holding = {}
             THEN [is_hdl_map |-> is_hdl_map,
                   handle_group_list |-> handle_group_list,
                   need_preprocess |-> need_preprocess, ret |-> "assertion"]
             ELSE erase_handle_in_result(
                      CHOOSE g \in holding : \A h \in holding : g <= h, vd)

erase_handle(vd) ==
    LET r == erase_handle_result(vd)
    IN  /\ is_hdl_map' = r.is_hdl_map
        /\ handle_group_list' = r.handle_group_list
        /\ need_preprocess' = r.need_preprocess
        /\ trace' = Call("erase_handle", r.ret, FALSE, 0, 0)
        /\ target' = IF r.ret = "true" THEN Untarget({vd}) ELSE target
        /\ UNCHANGED << point, original, solution, roi, ros, ros_id_map,
                        is_roi_map, rot_mtr, m_solver, iterations, tolerance,
                        written >>

erase_roi(vd) ==
    IF ~is_roi(vd)
    THEN /\ trace' = Call("erase_roi", "false", FALSE, 0, 0)
         /\ UNCHANGED << point, original, solution, roi, ros, ros_id_map,
                         is_roi_map, is_hdl_map, rot_mtr, m_solver, iterations,
                         tolerance, need_preprocess, handle_group_list,
                         written, target >>
    ELSE LET h == erase_handle_result(vd)
             found == vd \in Range(roi)
         IN  /\ is_hdl_map' = h.is_hdl_map
             /\ handle_group_list' = h.handle_group_list
             /\ is_roi_map' = IF found THEN [is_roi_map EXCEPT ![vd] = FALSE]
                              ELSE is_roi_map
             /\ roi' = Remove(roi, vd)
             /\ need_preprocess' = IF found THEN TRUE ELSE h.need_preprocess
             /\ trace' = Call("erase_roi",
                              IF h.ret = "assertion" \/ ~found THEN "assertion"
                              ELSE "true", FALSE, 0, 0)
             /\ target' = Untarget({vd})
             /\ written' = [written EXCEPT ![vd] = {}]
             /\ UNCHANGED << point, original, solution, ros, ros_id_map, rot_mtr,
                             m_solver, iterations, tolerance >>

(***************************************************************************)
(* preprocess() and the deformation calls.  p is the state preprocess()    *)
(* leaves.                                                                 *)
(***************************************************************************)
Bool(b) == IF b THEN "true" ELSE "false"

\* history: the handles hs were given the targets now in sol
Wrote(hs, p, sol, old) ==
    [v \in Vertices |->
        IF v \in hs THEN {sol[p.ros_id_map[v] + 1]} ELSE old[v]]

\* the call leaves the state p with the solution sol; the handles hs got targets
Prepared(op, p, sol, hs) ==
    /\ point' = p.point
    /\ ros' = p.ros
    /\ ros_id_map' = p.ros_id_map
    /\ rot_mtr' = p.rot_mtr
    /\ solution' = sol
    /\ original' = p.original
    /\ m_solver' = p.m_solver
    /\ need_preprocess' = p.need_preprocess
    /\ trace' = Call(op, IF op = "preprocess" THEN Bool(p.ret) ELSE "void",
                     p.rebuilt, 0, 0)
    /\ written' = Wrote(hs, p, sol, written)
    /\ target' = Wrote(hs, p, sol, Retarget(p, is_hdl_map, target))
    /\ UNCHANGED << roi, is_roi_map, is_hdl_map, iterations, tolerance,
                    handle_group_list >>

preprocess_after(p) == Prepared("preprocess", p, p.solution, {})

preprocess_call == preprocess_after(preprocess)

RECURSIVE WriteTargetsFromSolution(_, _, _, _)
\* variant: the loop transforms the current target, not the original position
WriteTargetsFromSolution(hs, p, T, sol) ==
    IF hs = <<>> THEN sol
    ELSE WriteTargetsFromSolution(Tail(hs), p, T,
            [sol EXCEPT ![p.ros_id_map[Head(hs)] + 1] =
                            T[sol[p.ros_id_map[Head(hs)] + 1]]])

RECURSIVE WriteTargets(_, _, _, _)
\* the loop of translate / rotate over the handles hs of the group:
\* solution[ros_id(v)] = T[original[ros_id(v)]]
WriteTargets(hs, p, T, sol) ==
    IF hs = <<>> THEN sol
    ELSE WriteTargets(Tail(hs), p, T,
            [sol EXCEPT ![p.ros_id_map[Head(hs)] + 1] =
                            T[p.original[p.ros_id_map[Head(hs)] + 1]]])

Transformed(op, hs, p, sol) ==
    /\ \A i \in 1..Len(sol) : sol[i] \in Pos
    /\ Prepared(op, p, sol, hs)

\* translate and rotate with the point transformation T, after preprocess()
Transform(op, handle_group, T, p) ==
    Transformed(op, Range(handle_group_list[handle_group]), p,
                WriteTargets(handle_group_list[handle_group], p, T, p.solution))

translate(handle_group, translation) ==
    Transform("translate", handle_group,
              [x \in Pos |-> x + translation], preprocess)

\* quat is the rotation by 0 (factor 1) or by a half turn (factor -1)
rotate(handle_group, rotation_center, quat, translation) ==
    Transform("rotate", handle_group,
              [x \in Pos |-> quat * (x - rotation_center)
                             + rotation_center + translation], preprocess)

assign_after(vd, target_position, p) ==
    IF ~is_handle(vd)
    THEN Prepared("assign", p, p.solution, {})
    ELSE Prepared("assign", p,
                  [p.solution EXCEPT ![p.ros_id_map[vd] + 1] = target_position],
                  {vd})

assign(vd, target_position) == assign_after(vd, target_position, preprocess)

\* the right-hand side a free row gets from the rotations and edge weights
Rhs == "rhs"

\* the vector B of update_solution: the target of a constrained row
RightHandSide(p, sol) ==
    [i \in 1..Len(p.ros) |->
        IF \E v \in Range(p.ros) : p.ros_id_map[v] + 1 = i /\ ~IsFree(v)
        THEN sol[i] ELSE Rhs]

Solutions(B, exact) ==
    { [i \in 1..Len(B) |-> IF i \in exact THEN B[i] ELSE f[i]] :
          f \in [(1..Len(B)) \ exact -> Pos] }

\* m_solver.linear_solver(B, X): the values X can take.  After a successful
\* factorization an identity row reproduces its right-hand side; the value of
\* any other row, and of every row after a failed factorization, is open
linear_solver(S, B) ==
    Solutions(B, { i \in 1..Len(B) :
                      S.ok /\ i <= Len(S.A) /\ IdentityRow(S.A, i) })

RECURSIVE CopySolution(_, _, _, _)
\* for(i < ros.size()) solution[ros_id(ros[i])] = X[ros_id(ros[i])]
CopySolution(i, p, X, sol) ==
    IF i > Len(p.ros) THEN sol
    ELSE CopySolution(i + 1, p, X,
            [sol EXCEPT ![p.ros_id_map[p.ros[i]] + 1] = X[p.ros_id_map[p.ros[i]] + 1]])

\* the global step: the solutions it can leave
update_solution(p, sol) ==
    { CopySolution(1, p, X, sol) :
          X \in linear_solver(p.m_solver, RightHandSide(p, sol)) }

RECURSIVE FitRotations(_, _, _)
\* the local step: every ros vertex gets the rotation fitted by the SVD
FitRotations(i, p, rot) ==
    IF i > Len(p.ros) THEN rot
    ELSE FitRotations(i + 1, p,
                      [rot EXCEPT ![p.ros_id_map[p.ros[i]] + 1] = RotFitted])

optimal_rotations_svd(p, rot) == FitRotations(1, p, rot)

Iterated(ls, sols, rot) ==
    { [solution |-> s, rot_mtr |-> rot, iters |-> ls.iters + 1,
       evals |-> ls.evals] : s \in sols }

\* one pass of the loop body up to the energy based termination test
Iteration(p, ls) ==
    Iterated(ls, update_solution(p, ls.solution),
             optimal_rotations_svd(p, ls.rot_mtr))

Evaluated(L) == { [ls EXCEPT !.evals = @ + 1] : ls \in L }

RECURSIVE DeformLoop(_, _, _, _, _)
RECURSIVE DeformTest(_, _, _, _, _)
\* for(ite = 0; ite < n; ++ite): the states the loop can end in, from the set
\* L of states at the loop head
DeformLoop(ite, n, tol, p, L) ==
    IF ~(ite < n) THEN L
    ELSE DeformTest(ite, n, tol, p, UNION { Iteration(p, ls) : ls \in L })

\* variant: the energy is evaluated whatever the tolerance
DeformTestAnyTolerance(ite, n, tol, p, after) ==
    IF (ite + 1) < n
    THEN (IF ite # 0 THEN Evaluated(after) ELSE {})
         \cup DeformLoop(ite + 1, n, tol, p, Evaluated(after))
    ELSE DeformLoop(ite + 1, n, tol, p, after)

\* variant: the first iteration can end the loop as well
DeformTestFromFirst(ite, n, tol, p, after) ==
    IF tol > 0 /\ (ite + 1) < n
    THEN Evaluated(after)
         \cup DeformLoop(ite + 1, n, tol, p, Evaluated(after))
    ELSE DeformLoop(ite + 1, n, tol, p, after)

\* the energy based termination: energy_dif < tolerance can go either way
DeformTest(ite, n, tol, p, after) ==
    IF tol > 0 /\ (ite + 1) < n
    THEN (IF ite # 0 THEN Evaluated(after) ELSE {})
         \cup DeformLoop(ite + 1, n, tol, p, Evaluated(after))
    ELSE DeformLoop(ite + 1, n, tol, p, after)

\* variant: nothing is copied to the mesh
assign_solution_none(p, sol) == p.point

\* assign_solution(): the stored positions after the copy of the roi rows
assign_solution(p, sol) ==
    [v \in Vertices |->
        IF v \in Range(p.ros) /\ is_roi(v)
        THEN sol[p.ros_id_map[v] + 1]
        ELSE p.point[v]]

deform_after(n, tol, p) ==
    \E ls \in DeformLoop(0, n, tol, p,
                  { [solution |-> p.solution, rot_mtr |-> p.rot_mtr,
                     iters |-> 0, evals |-> 0] }) :
        /\ point' = assign_solution(p, ls.solution)
        /\ ros' = p.ros
        /\ ros_id_map' = p.ros_id_map
        /\ rot_mtr' = ls.rot_mtr
        /\ solution' = ls.solution
        /\ original' = p.original
        /\ m_solver' = p.m_solver
        /\ need_preprocess' = p.need_preprocess
        /\ trace' = Call("deform", "void", p.rebuilt, ls.iters, ls.evals)
        /\ target' = Retarget(p, is_hdl_map, target)
        /\ UNCHANGED << roi, is_roi_map, is_hdl_map, iterations, tolerance,
                        handle_group_list, written >>

\* variant: the iterations start from the state as it is
deform_unprepared(n, tol) ==
    deform_after(n, tol,
        [point |-> point, ros |-> ros, ros_id_map |-> ros_id_map,
         rot_mtr |-> rot_mtr, solution |-> solution, original |-> original,
         m_solver |-> m_solver, need_preprocess |-> need_preprocess,
         ret |-> TRUE, rebuilt |-> FALSE])

\* variant: no iteration runs after a preprocess() that returned false
deform_checked(n, tol) ==
    deform_after(IF preprocess.ret THEN n ELSE 0, tol, preprocess)

deform(n, tol) == deform_after(n, tol, preprocess)

\* deform() without arguments
deform_default == deform(iterations, tolerance)

set_iterations(n) ==
    /\ iterations' = n
    /\ trace' = Call("set_iterations", "void", FALSE, 0, 0)
    /\ UNCHANGED << point, original, solution, roi, ros, ros_id_map, is_roi_map,
                    is_hdl_map, rot_mtr, m_solver, tolerance, need_preprocess,
                    handle_group_list, written, target >>

set_tolerance(tol) ==
    /\ tolerance' = tol
    /\ trace' = Call("set_tolerance", "void", FALSE, 0, 0)
    /\ UNCHANGED << point, original, solution, roi, ros, ros_id_map, is_roi_map,
                    is_hdl_map, rot_mtr, m_solver, iterations, need_preprocess,
                    handle_group_list, written, target >>

\* the calls Spec explores: on the vertices Args of the strip, handles among
\* HandleArgs, at most MaxRoi vertices in the ROI and MaxGroups groups
HandleArgs == { v \in Args : v <= MaxHandle }
Fits(vd) == is_roi(vd) \/ Len(roi) < MaxRoi

Next ==
    \/ reset
    \/ Len(handle_group_list) < MaxGroups /\ create_handle_group
    \/ \E vd \in Args : Fits(vd) /\ insert_roi(vd)
    \/ \E g \in Groups, vd \in HandleArgs : Fits(vd) /\ insert_handle(g, vd)
    \/ \E g \in Groups : erase_handle_group(g)
    \/ \E g \in Groups, vd \in Args : erase_handle_in(g, vd)
    \/ \E vd \in Args : erase_handle(vd)
    \/ \E vd \in Args : erase_roi(vd)
    \/ preprocess_call
    \/ \E g \in Groups, t \in -MaxPos..MaxPos : translate(g, t)
    \/ \E g \in Groups, c \in Pos : rotate(g, c, -1, 0)
    \/ \E vd \in Args, t \in Pos : assign(vd, t)
    \/ \E n \in 0..MaxIter, tol \in {0, 1} : deform(n, tol)
    \/ deform_default

Spec == Init /\ [][Next]_vars

\* the calls RegistrySpec explores: the registry, reset() and preprocess() on
\* the separate triangle, whose three vertices can all be in the ROI
RegistryArgs == UNION { {f[1], f[2], f[3]} : f \in Isolated }
RegistryHandles ==
    { v \in RegistryArgs : \A w \in RegistryArgs : v <= w + MaxHandle }
RegistryFits(vd) == is_roi(vd) \/ Len(roi) < MaxRegistryRoi

RegistryNext ==
    \/ reset
    \/ Len(handle_group_list) < MaxRegistryGroups /\ create_handle_group
    \/ \E vd \in RegistryArgs : RegistryFits(vd) /\ insert_roi(vd)
    \/ \E g \in Groups, vd \in RegistryHandles :
           RegistryFits(vd) /\ insert_handle(g, vd)
    \/ \E g \in Groups : erase_handle_group(g)
    \/ \E g \in Groups, vd \in RegistryArgs : erase_handle_in(g, vd)
    \/ \E vd \in RegistryArgs : erase_handle(vd)
    \/ \E vd \in RegistryArgs : erase_roi(vd)
    \/ preprocess_call

RegistrySpec == Init /\ [][RegistryNext]_vars

\* the calls TranslateSpec explores: handles in up to MaxTranslateGroups
\* groups on the vertices Args of the strip, their targets and deform()
TranslateNext ==
    \/ Len(handle_group_list) < MaxTranslateGroups /\ create_handle_group
    \/ \E g \in Groups, vd \in Args : Fits(vd) /\ insert_handle(g, vd)
    \/ \E vd \in Args : erase_roi(vd)
    \/ \E vd \in Args, t \in Pos : assign(vd, t)
    \/ \E g \in Groups, t \in -MaxPos..MaxPos : translate(g, t)
    \/ deform_default

TranslateSpec == Init /\ [][TranslateNext]_vars

\* the calls ComponentsSpec explores: handles among HandleArgs on the strip,
\* ROI vertices there and on the separate triangle, and preprocess()
ComponentsArgs == HandleArgs \cup RegistryArgs
ComponentsFits(vd) == is_roi(vd) \/ Len(roi) < MaxComponentsRoi

ComponentsNext ==
    \/ Len(handle_group_list) < MaxGroups /\ create_handle_group
    \/ \E vd \in ComponentsArgs : ComponentsFits(vd) /\ insert_roi(vd)
    \/ \E g \in Groups, vd \in HandleArgs :
           ComponentsFits(vd) /\ insert_handle(g, vd)
    \/ \E vd \in ComponentsArgs : erase_handle(vd)
    \/ \E vd \in ComponentsArgs : erase_roi(vd)
    \/ preprocess_call

ComponentsSpec == Init /\ [][ComponentsNext]_vars

\* the calls DeformSpec explores: a ROI with handles among HandleArgs on the
\* strip, targets, and deform() = deform(iterations, tolerance) under every
\* setting of the two, with tolerances below, at and above zero
Tolerances == { -1, 0, 1 }

DeformNext ==
    \/ Len(handle_group_list) < MaxGroups /\ create_handle_group
    \/ \E vd \in Args : Fits(vd) /\ insert_roi(vd)
    \/ \E g \in Groups, vd \in HandleArgs : Fits(vd) /\ insert_handle(g, vd)
    \/ \E vd \in Args, t \in Pos : assign(vd, t)
    \/ \E n \in 0..MaxIter : set_iterations(n)
    \/ \E tol \in Tolerances : set_tolerance(tol)
    \/ deform_default

DeformSpec == Init /\ [][DeformNext]_vars

\* the calls FailureSpec explores: handles among HandleArgs on the strip, ROI
\* vertices on the separate triangle, inserted in the order of their numbers,
\* where the factorization can fail, and the calls that prepare
FailureFits(vd) ==
    /\ ComponentsFits(vd)
    /\ \A w \in RegistryArgs : is_roi(w) => w < vd

FailureNext ==
    \/ Len(handle_group_list) < MaxGroups /\ create_handle_group
    \/ \E vd \in RegistryArgs : FailureFits(vd) /\ insert_roi(vd)
    \/ \E g \in Groups, vd \in HandleArgs :
           ComponentsFits(vd) /\ insert_handle(g, vd)
    \/ preprocess_call
    \/ \E g \in Groups, t \in -MaxPos..MaxPos : translate(g, t)
    \/ \E g \in Groups, c \in Pos : rotate(g, c, -1, 0)
    \/ \E vd \in HandleArgs, t \in Pos : assign(vd, t)
    \/ \E n \in 0..MaxFailureIter : deform(n, 0)

FailureSpec == Init /\ [][FailureNext]_vars

(***************************************************************************)
(* The registry invariants.                                                *)
(***************************************************************************)
HandleGroupMembers == UNION { Range(handle_group_list[g]) : g \in Groups }
HandleSet == { v \in Vertices : is_handle(v) }
RoiSet == { v \in Vertices : is_roi(v) }
RosSet == Range(ros)

\* C1: after any sequence of public operations every vertex that is a member
\* of any handle group is also in the ROI (flagged as ROI and held in roi)
HandlesAreRoi == \A v \in HandleGroupMembers : is_roi(v) /\ v \in Range(roi)

\* C1 witness: a handle group still has a member after another vertex was
\* erased from the ROI
HandlesAreRoiWitness ==
    /\ trace.op = "erase_roi" /\ trace.ret = "true"
    /\ HandleGroupMembers # {}

\* C2 as stated: in every reachable state handle set <= ROI set <= ROS set
HandleRoiRosChain == HandleSet \subseteq RoiSet /\ RoiSet \subseteq RosSet

\* C2 amended: the handle set is a subset of the ROI set in every reachable
\* state, and the ROI set is a subset of the ROS set in every reachable state
\* whose needs-preprocessing flag is clear
HandleRoiRosChainWhenClean ==
    /\ HandleSet \subseteq RoiSet
    /\ ~need_preprocess => RoiSet \subseteq RosSet

\* C2 witness: a preprocessed state with a handle and a free ROI vertex
HandleRoiRosChainWitness ==
    /\ ~need_preprocess
    /\ HandleSet # {}
    /\ RoiSet \ HandleSet # {}
    /\ RosSet \ RoiSet # {}

(***************************************************************************)
(* deform() and the handle targets.                                        *)
(***************************************************************************)
\* the ROS vertices that are not ROI: the hard constraints
HardConstrained == { v \in RosSet : ~is_roi(v) }

HardConstraintsKept ==
    \A v \in HardConstrained :
        solution[ros_id(v) + 1] = original[ros_id(v) + 1]

\* C3 as stated: after deform(n, tol) on a successfully preprocessed engine
\* every handle is stored at the target last written for it by translate,
\* rotate or assign, and every hard-constrained solution equals its original
DeformReachesLastWritten ==
    (trace.op = "deform" /\ m_solver.ok) =>
        /\ \A v \in HandleSet : written[v] # {} => point[v] \in written[v]
        /\ HardConstraintsKept

\* C3 amended: after deform(n, tol) on a successfully preprocessed engine
\* every handle is stored at the target last written for it since it last
\* became a handle (the solution carried over at the rebuild if none was
\* written since), and every hard-constrained solution equals its original
DeformReachesTarget ==
    (trace.op = "deform" /\ m_solver.ok) =>
        /\ \A v \in HandleSet : target[v] = {point[v]}
        /\ HardConstraintsKept

\* C3 witness: deform has iterated with a handle whose target differs from
\* its original position, next to a free vertex and hard constraints
DeformReachesTargetWitness ==
    /\ trace.op = "deform" /\ trace.iters >= 1 /\ m_solver.ok
    /\ \E v \in HandleSet : point[v] # original[ros_id(v) + 1]
    /\ RoiSet \ HandleSet # {}
    /\ HardConstrained # {}

(***************************************************************************)
(* preprocess() and the needs-preprocessing flag.                          *)
(***************************************************************************)
\* C4: a preprocess() directly after a preprocess() does not rebuild and
\* returns what the first call returned, success or failure
SecondPreprocessSame ==
    [][(trace.op = "preprocess" /\ trace'.op = "preprocess") =>
          (~trace'.rebuilt /\ trace'.ret = trace.ret)]_vars

\* C5: when preprocess() returns false (the factorization failed) the
\* needs-preprocessing flag is still set
FailedPreprocessStaysDirty ==
    (trace.op = "preprocess" /\ trace.ret = "false") => need_preprocess

MembershipChanged ==
    \/ roi' # roi
    \/ is_roi_map' # is_roi_map
    \/ is_hdl_map' # is_hdl_map
    \/ \E v \in Vertices :
           { g \in 1..Len(handle_group_list') : v \in Range(handle_group_list'[g]) }
         # { g \in Groups : v \in Range(handle_group_list[g]) }

Preparing == { "preprocess", "translate", "rotate", "assign", "deform" }

\* C6: every step that changes the ROI or the handle membership leaves the
\* flag set, and a preprocess, translate, rotate, assign or deform that starts
\* with the flag set rebuilds the region of solution
MembershipChangeSetsFlag ==
    [][/\ MembershipChanged => need_preprocess'
       /\ (need_preprocess /\ trace'.op \in Preparing) => trace'.rebuilt]_vars

\* C6 witness: a registry call after a preprocess() has raised the flag again
MembershipChangeSetsFlagWitness ==
    /\ need_preprocess
    /\ trace.op \in { "insert_roi", "insert_handle", "erase_roi", "erase_handle",
                      "erase_handle_in", "erase_handle_group" }
    /\ ros # <<>>
    /\ RoiSet # { v \in RosSet : ros_id(v) < Len(roi) }

\* the region of solution, the ids and the factorized matrix are those of the
\* ROI and the handles as they are now
RegionIsCurrent ==
    /\ Len(ros) >= Len(roi)
    /\ \A i \in 1..Len(roi) : ros[i] = roi[i] /\ ros_id(roi[i]) = i - 1
    /\ \A v \in RosSet : ros_id(v) \in 0..(Len(ros) - 1)
    /\ Len(solution) >= Len(ros) /\ Len(original) = Len(solution)
    /\ Len(m_solver.A) = Len(ros)
    /\ \A v \in RosSet : IdentityRow(m_solver.A, ros_id(v) + 1) <=> ~IsFree(v)

Deforming == { "translate", "rotate", "assign", "deform" }

\* C7: translate, rotate, assign and deform rebuild first when they start with
\* the flag set, and return with the flag clear and with the region of
\* solution, the ros ids and the solution slots of the current ROI and handles
DeformingCallsPrepare ==
    [][trace'.op \in Deforming =>
          /\ need_preprocess => trace'.rebuilt
          /\ ~need_preprocess'
          /\ RegionIsCurrent']_vars

\* C7 witness: a translate that had to rebuild wrote the slot of a handle of
\* a ROI that had changed since the last rebuild
DeformingCallsPrepareWitness ==
    /\ trace.op = "translate" /\ trace.rebuilt
    /\ \E v \in HandleSet : written[v] # {}
    /\ Len(roi) = MaxRoi

\* C8: after reset() nothing of the earlier region of solution is left: ros,
\* the ros ids, original, solution and the rotations are as after construction
ResetIsFresh ==
    trace.op = "reset" =>
        /\ roi = <<>> /\ handle_group_list = <<>> /\ need_preprocess
        /\ RoiSet = {} /\ HandleSet = {}
        /\ ros = <<>>
        /\ \A v \in Vertices : ros_id(v) = NoId
        /\ original = <<>> /\ solution = <<>> /\ rot_mtr = <<>>

\* C9: a rebuild stores, for every vertex of the previous ROS that is not in
\* the ROI, the position of its last original snapshot
RebuildRestoresEvicted ==
    [][trace'.rebuilt =>
          \A v \in RosSet :
              ~is_roi(v) => point'[v] = original[ros_id(v) + 1]]_vars

\* C9 witness: a rebuild is due while a vertex erased from the ROI is stored
\* at the position deform() gave it, not at its original snapshot
RebuildRestoresEvictedWitness ==
    /\ need_preprocess
    /\ trace.op = "erase_roi" /\ trace.ret = "true"
    /\ \E v \in RosSet :
           ~is_roi(v) /\ point[v] # original[ros_id(v) + 1]

\* s without the occurrences of v, the others in their order
Without(s, v) == SelectSeq(s, LAMBDA x : x # v)

\* C10: erase_roi(vd) on a ROI vertex returns true and takes vd out of the
\* ROI, the handles and every group, all else in its order; on any other
\* vertex it returns false and changes nothing
EraseRoiContract ==
    [][\A vd \in Vertices :
          erase_roi(vd) =>
              IF is_roi(vd)
              THEN /\ trace'.ret = "true"
                   /\ roi' = Without(roi, vd)
                   /\ is_roi_map' = [is_roi_map EXCEPT ![vd] = FALSE]
                   /\ is_hdl_map' = [is_hdl_map EXCEPT ![vd] = FALSE]
                   /\ handle_group_list' =
                          [g \in Groups |-> Without(handle_group_list[g], vd)]
              ELSE /\ trace'.ret = "false"
                   /\ UNCHANGED << point, original, solution, roi, ros,
                                   ros_id_map, is_roi_map, is_hdl_map, rot_mtr,
                                   m_solver, iterations, tolerance,
                                   need_preprocess, handle_group_list >>]_vars

\* C10 witness: erase_roi took a vertex out of three, a handle among them
EraseRoiContractWitness ==
    /\ trace.op = "erase_roi" /\ trace.ret = "true"
    /\ Len(roi) = 2
    /\ HandleSet # {}

(***************************************************************************)
(* insert_handle followed by erase_handle.                                 *)
(***************************************************************************)
\* insert_handle(g, v) acts on a vertex that is not a handle
InsertsHandle(g, v) == ~is_handle(v) /\ insert_handle(g, v)

\* erase_handle(g, v), called in the state the step leads to, takes the
\* handle mark of v away
ThenErased(g, v) ==
    /\ erase_handle_in_result(g, v)'.ret = "true"
    /\ ~erase_handle_in_result(g, v)'.is_hdl_map[v]

\* no erase_handle(g, v) touches the ROI
EraseHandleKeepsRoi ==
    \A g \in Groups, v \in Vertices :
        erase_handle_in(g, v) => UNCHANGED << roi, is_roi_map >>

\* C11 as stated: insert_handle(g, v) on a vertex that is not a handle,
\* followed by erase_handle(g, v), leaves is_handle(v) false and the ROI
\* membership of v as it was before the insert
InsertEraseRestoresRoi ==
    [][/\ EraseHandleKeepsRoi
       /\ \A g \in Groups, v \in Vertices :
              InsertsHandle(g, v) =>
                  ThenErased(g, v) /\ is_roi_map'[v] = is_roi_map[v]]_vars

\* C11 amended: insert_handle(g, v) on a vertex that is not a handle, followed
\* by erase_handle(g, v), leaves is_handle(v) false and v in the ROI, also
\* when v was not in the ROI before the insert; the ROI membership of every
\* other vertex is as before
InsertEraseLeavesRoi ==
    [][/\ EraseHandleKeepsRoi
       /\ \A g \in Groups, v \in Vertices :
              InsertsHandle(g, v) =>
                  /\ ThenErased(g, v)
                  /\ is_roi_map' = [is_roi_map EXCEPT ![v] = TRUE]]_vars

\* C11 witness: erase_handle(g, v) has taken the handle mark from a vertex
\* that stays in the ROI
InsertEraseLeavesRoiWitness ==
    /\ trace.op = "erase_handle_in" /\ trace.ret = "true"
    /\ RoiSet \ HandleSet # {}
    /\ \E g \in Groups : handle_group_list[g] = <<>>

(***************************************************************************)
(* translate.                                                              *)
(***************************************************************************)
Translations == -MaxPos..MaxPos

\* the vertices with a slot in the position arrays, before and after the step
HasSlot(v) == ros_id_map[v] # NoId
KeepsSlotValue(v) ==
    /\ ros_id_map'[v] # NoId
    /\ solution'[ros_id_map'[v] + 1] = solution[ros_id_map[v] + 1]

\* after the step every handle of group g has the target original + t
GroupTranslated(g, t) ==
    \A h \in Range(handle_group_list[g]) :
        /\ ros_id_map'[h] # NoId
        /\ solution'[ros_id_map'[h] + 1] = original'[ros_id_map'[h] + 1] + t

\* C12 as stated: translate(g, t) sets the target of every handle of g to its
\* original position plus t and changes the solution entry of no other vertex
TranslateSetsGroupOnly ==
    [][\A g \in Groups, t \in Translations :
          translate(g, t) =>
              /\ GroupTranslated(g, t)
              /\ \A v \in Vertices \ Range(handle_group_list[g]) :
                     HasSlot(v) => KeepsSlotValue(v)]_vars

\* C12 amended: translate(g, t) sets the target of every handle of g to its
\* original position plus t; with the flag clear it changes no other solution
\* entry, no original position and no id (so a second translate(g, t2) gives
\* original + t2); with the flag set it rebuilds first, and then every ROI
\* vertex outside g that had a slot, the handles of the other groups among
\* them, keeps its solution entry
TranslateSetsGroup ==
    [][\A g \in Groups, t \in Translations :
          translate(g, t) =>
              /\ GroupTranslated(g, t)
              /\ ~need_preprocess =>
                     /\ UNCHANGED << original, ros_id_map, point >>
                     /\ Len(solution') = Len(solution)
                     /\ \A v \in Vertices \ Range(handle_group_list[g]) :
                            HasSlot(v) => KeepsSlotValue(v)
              /\ \A v \in RoiSet \ Range(handle_group_list[g]) :
                     HasSlot(v) => KeepsSlotValue(v)]_vars

\* C12 witness: a translate that rebuilt has run while two groups hold
\* handles, one with a target away from its original position and one at it
TranslateSetsGroupWitness ==
    /\ trace.op = "translate" /\ trace.rebuilt
    /\ \E g1, g2 \in Groups :
           /\ g1 # g2
           /\ \E h \in Range(handle_group_list[g1]) :
                  solution[ros_id(h) + 1] # original[ros_id(h) + 1]
           /\ \E h \in Range(handle_group_list[g2]) :
                  solution[ros_id(h) + 1] = original[ros_id(h) + 1]

(***************************************************************************)
(* preprocess() on a mesh of two components.                               *)
(***************************************************************************)
RECURSIVE Connected(_)
\* the vertices joined to the set S by edges of the mesh
Connected(S) ==
    LET N == S \cup { h[2] : h \in { g \in Halfedges : g[1] \in S } }
    IN  IF N = S THEN S ELSE Connected(N)

Components == { Connected({v}) : v \in Vertices }

FreeSet == RoiSet \ HandleSet

\* all handles are in the component C and a free vertex is in another one
HandlesApartFromFree(C) ==
    /\ HandleSet # {}
    /\ HandleSet \subseteq C
    /\ FreeSet \ C # {}

\* ... and that other component consists of free vertices
HandlesApartFromFreeComponent(C) ==
    /\ HandleSet # {}
    /\ HandleSet \subseteq C
    /\ \E D \in Components \ {C} : D \subseteq FreeSet

\* C13 as stated: with all handles in one component and a free vertex in
\* the other, preprocess() has returned false
SplitMeshFails ==
    (trace.op = "preprocess" /\ \E C \in Components : HandlesApartFromFree(C))
        => trace.ret = "false"

\* C13 amended: with all handles in one component and another component
\* made of free vertices only, the preprocess() that rebuilds returns false
SplitFreeComponentFails ==
    (/\ trace.op = "preprocess" /\ trace.rebuilt
     /\ \E C \in Components : HandlesApartFromFreeComponent(C))
        => trace.ret = "false"

\* C13 witness: such a preprocess() has returned
SplitFreeComponentFailsWitness ==
    /\ trace.op = "preprocess" /\ trace.rebuilt /\ trace.ret = "false"
    /\ Cardinality(Components) = 2
    /\ \E C \in Components : HandlesApartFromFreeComponent(C)

(***************************************************************************)
(* insert_handle.                                                          *)
(***************************************************************************)
\* the groups that hold v
GroupsOf(v) == { g \in Groups : v \in Range(handle_group_list[g]) }

\* C14: insert_handle(g, v) on a handle returns false and changes nothing;
\* on a vertex that is not a handle it returns true, v becomes a member of g
\* and of no other group, and v is in the ROI
InsertHandleContract ==
    [][\A g \in Groups, v \in Vertices :
          insert_handle(g, v) =>
              IF is_handle(v)
              THEN /\ trace'.ret = "false"
                   /\ UNCHANGED << handle_group_list, is_hdl_map, roi,
                                   is_roi_map, need_preprocess, ros, ros_id_map,
                                   point, original, solution >>
              ELSE /\ trace'.ret = "true"
                   /\ GroupsOf(v)' = {g}
                   /\ handle_group_list'[g] =
                          Append(handle_group_list[g], v)
                   /\ is_hdl_map'[v] /\ is_roi_map'[v]
                   /\ v \in Range(roi')
                   /\ need_preprocess']_vars

\* C14 witness: insert_handle has returned false while the handle is in one
\* group and a second group is empty
InsertHandleContractWitness ==
    /\ trace.op = "insert_handle" /\ trace.ret = "false"
    /\ \E g1, g2 \in Groups :
           handle_group_list[g1] # <<>> /\ handle_group_list[g2] = <<>>

(***************************************************************************)
(* The membership flags and the containers behind them.                    *)
(***************************************************************************)
\* how often v occurs in the sequence s
Occurrences(s, v) == Cardinality({ i \in 1..Len(s) : s[i] = v })

RECURSIVE SumOver(_, _)
SumOver(f, S) ==
    IF S = {} THEN 0
    ELSE LET x == CHOOSE y \in S : TRUE IN f[x] + SumOver(f, S \ {x})

\* how often v occurs in all the handle groups together
HandleOccurrences(v) ==
    SumOver([g \in Groups |-> Occurrences(handle_group_list[g], v)], Groups)

\* C15: is_roi(v) holds exactly when v occurs once in roi, and no vertex
\* occurs twice; is_handle(v) holds exactly when v occurs once in all the
\* handle groups together, and no vertex occurs twice; no call has run into
\* an inconsistency assertion
FlagsAgreeWithContainers ==
    /\ \A v \in Vertices :
           /\ Occurrences(roi, v) = (IF is_roi(v) THEN 1 ELSE 0)
           /\ HandleOccurrences(v) = (IF is_handle(v) THEN 1 ELSE 0)
    /\ trace.ret # "assertion"

\* C15 witness: two groups exist, a handle is in one of them, another ROI
\* vertex is not a handle, and an erase has just succeeded
FlagsAgreeWithContainersWitness ==
    /\ trace.op \in {"erase_roi", "erase_handle"} /\ trace.ret = "true"
    /\ Len(handle_group_list) = MaxRegistryGroups
    /\ HandleSet # {}
    /\ RoiSet \ HandleSet # {}

(***************************************************************************)
(* The region of solution after a rebuild.                                 *)
(***************************************************************************)
\* the vertices that have a ros id
Assigned == { v \in Vertices : ros_id_map[v] # NoId }

\* the vertices joined to v by an edge
Adjacent(v) == { h[1] : h \in { g \in Halfedges : g[2] = v } }

\* the ring around the hard-constrained vertices, as the mesh gives it
OutsideRing ==
    { v \in Vertices \ RosSet : \E w \in RosSet \ RoiSet : v \in Adjacent(w) }

\* C16: from a rebuild on, the ros ids are a bijection from the vertices of
\* the ROS and the outside ring onto 0..|ROS|+|outside|-1, every other vertex
\* has the unassigned mark, and the ROI vertices have the ids 0..|ROI|-1 in
\* the order of their insertion
RosIdsBijective ==
    ~need_preprocess =>
        /\ \A v \in Assigned : ros_id_map[v] \in 0..(Cardinality(Assigned) - 1)
        /\ \A v, w \in Assigned : ros_id_map[v] = ros_id_map[w] => v = w
        /\ Assigned = RosSet \cup OutsideRing
        /\ Len(solution) = Cardinality(Assigned)
        /\ Len(original) = Cardinality(Assigned)
        /\ \A i \in 1..Len(roi) : ros_id_map[roi[i]] = i - 1
        /\ \A v \in Vertices \ RoiSet : ros_id_map[v] \notin 0..(Len(roi) - 1)

\* C16 witness: a rebuild has given ids to two ROI vertices, inserted in
\* another order than the mesh numbers them, and to vertices outside the ROI
RosIdsBijectiveWitness ==
    /\ trace.rebuilt /\ ~need_preprocess
    /\ Len(roi) = 2 /\ roi[1] > roi[2]
    /\ Cardinality(Assigned) > Len(roi)

\* C17: from a rebuild on, the ROS is the ROI and the vertices adjacent to
\* it, the vertices outside the ROI with the ids |ROI|..|ROS|-1; the outside
\* ring is the vertices off the ROS adjacent to a ROS vertex outside the ROI,
\* with ids from |ROS| on; the matrix has |ROS| rows
RosIsRoiAndRing ==
    ~need_preprocess =>
        /\ RosSet = RoiSet \cup UNION { Adjacent(v) : v \in RoiSet }
        /\ Cardinality(RosSet) = Len(ros)
        /\ \A v \in RosSet \ RoiSet :
               ros_id_map[v] \in Len(roi)..(Len(ros) - 1)
        /\ Assigned \ RosSet = OutsideRing
        /\ \A v \in OutsideRing : ros_id_map[v] >= Len(ros)
        /\ Len(m_solver.A) = Len(ros)
        /\ \A i \in 1..Len(m_solver.A) : Len(m_solver.A[i]) = Len(ros)

\* C17 witness: a rebuild has left a ROS with vertices outside the ROI and
\* an outside ring
RosIsRoiAndRingWitness ==
    /\ trace.rebuilt /\ ~need_preprocess
    /\ RoiSet # {}
    /\ RosSet \ RoiSet # {}
    /\ OutsideRing # {}
    /\ Len(solution) > Len(m_solver.A)

(***************************************************************************)
(* What a rebuild carries over.                                            *)
(***************************************************************************)
\* v has the same original position after the step, in its new slot
KeepsOriginal(v) ==
    /\ ros_id_map'[v] # NoId
    /\ original'[ros_id_map'[v] + 1] = original[ros_id_map[v] + 1]

\* v enters the position arrays with its mesh position
EntersAtMeshPosition(v) == original'[ros_id_map'[v] + 1] = point[v]

\* C18: across a rebuild every vertex that had a slot since the previous
\* rebuild, as the ROI vertices of that rebuild have, and is in the ROI keeps
\* its original position and, when the rebuilding call is preprocess(), which
\* sets no target, its solution; every vertex that gets its first slot gets
\* original = solution = its mesh position
RebuildCarriesOver ==
    [][trace'.rebuilt =>
          /\ \A v \in RoiSet \cap Assigned :
                 /\ KeepsOriginal(v)
                 /\ trace'.op = "preprocess" => KeepsSlotValue(v)
          /\ \A v \in Assigned' \ Assigned :
                 /\ EntersAtMeshPosition(v)
                 /\ trace'.op = "preprocess" =>
                        /\ solution'[ros_id_map'[v] + 1] = point[v]
                        /\ point'[v] = point[v]]_vars

\* C18 witness: after a preprocess() that rebuilt, a ROI vertex has a target
\* away from its original position and a ROI vertex has an original position
\* away from its mesh position
RebuildCarriesOverWitness ==
    /\ trace.op = "preprocess" /\ trace.rebuilt
    /\ \E v \in RoiSet :
           solution[ros_id_map[v] + 1] # original[ros_id_map[v] + 1]
    /\ \E v \in RoiSet : original[ros_id_map[v] + 1] # point[v]
    /\ Len(roi) = MaxRoi

(***************************************************************************)
(* The registry calls defer the rebuild.                                   *)
(***************************************************************************)
RegistryCalls ==
    { "create_handle_group", "insert_handle", "erase_handle_group",
      "erase_handle_in", "erase_handle", "insert_roi", "erase_roi" }

\* C19: create_handle_group, insert_handle, the three erase_handle, insert_roi
\* and erase_roi leave ros, the ros ids, original, solution, the rotations,
\* the factorization and the mesh positions as they are and rebuild nothing;
\* ros, the ids and the factorization change only in a preprocess, translate,
\* rotate, assign or deform that rebuilds
RegistryCallsDefer ==
    [][/\ trace'.op \in RegistryCalls =>
              /\ UNCHANGED << ros, ros_id_map, original, solution, rot_mtr,
                              m_solver, point >>
              /\ ~trace'.rebuilt
       /\ (ros' # ros \/ ros_id_map' # ros_id_map \/ m_solver' # m_solver) =>
              trace'.op \in Preparing /\ trace'.rebuilt /\ need_preprocess]_vars

\* C19 witness: erase_roi has taken a vertex from the ROI that is still the
\* first of ros, with a target away from its original position
RegistryCallsDeferWitness ==
    /\ trace.op = "erase_roi" /\ trace.ret = "true"
    /\ need_preprocess
    /\ ros # <<>> /\ ros[1] \notin RoiSet
    /\ solution[1] # original[1]
    /\ m_solver.A # <<>>

(***************************************************************************)
(* The commit of deform().                                                 *)
(***************************************************************************)
\* the commit has given every ROI vertex its solution
RoiCommitted ==
    \A v \in RoiSet : point'[v] = solution'[ros_id_map'[v] + 1]

\* C20 as stated: deform() writes the mesh position of ROI vertices only:
\* every vertex that deform() has in the ROS outside the ROI or in the outside
\* ring has the same mesh position after deform() as before it
DeformKeepsNonRoi ==
    [][trace'.op = "deform" =>
          /\ RoiCommitted
          /\ \A v \in Assigned' \ RoiSet : point'[v] = point[v]]_vars

\* C20 amended: the commit of deform() writes the mesh position of ROI
\* vertices only; a vertex outside the ROI has the same mesh position after
\* deform() as before it, unless deform() starts with the flag set and the
\* vertex is in the ros of the previous rebuild: the rebuild puts it back to
\* its original position
DeformKeepsNonRoiButEvicted ==
    [][trace'.op = "deform" =>
          /\ RoiCommitted
          /\ \A v \in Vertices \ RoiSet :
                 point'[v] = IF need_preprocess /\ v \in RosSet
                             THEN original[ros_id_map[v] + 1]
                             ELSE point[v]]_vars

\* C20 witness: deform() has run, with iterations, on a region with a free
\* vertex, a hard-constrained vertex and an outside ring, and has moved a ROI
\* vertex away from its original position
DeformKeepsNonRoiButEvictedWitness ==
    /\ trace.op = "deform" /\ trace.iters > 0
    /\ RoiSet \ HandleSet # {}
    /\ RosSet \ RoiSet # {}
    /\ OutsideRing # {}
    /\ \E v \in RoiSet : point[v] # original[ros_id_map[v] + 1]

(***************************************************************************)
(* The iterations of deform().                                             *)
(***************************************************************************)
\* the step is deform(n, tol), called as deform() with these settings
DeformCalled(n, tol) ==
    /\ trace'.op = "deform"
    /\ iterations = n /\ tolerance = tol
    /\ deform_default

Min(a, b) == IF a < b THEN a ELSE b

\* C21: with a tolerance of zero or below, deform(n, tolerance) runs n
\* iterations, evaluates no energy, and leaves every ROI vertex at its solution
ZeroToleranceRunsAll ==
    [][\A n \in 0..MaxIter, tol \in Tolerances :
          (tol <= 0 /\ DeformCalled(n, tol)) =>
              /\ trace'.iters = n
              /\ trace'.evals = 0
              /\ RoiCommitted
              /\ ~need_preprocess']_vars

\* C21 witness: a deform with the tolerance set to zero or below has run all
\* the iterations without the energy and has moved a ROI vertex
ZeroToleranceRunsAllWitness ==
    /\ trace.op = "deform" /\ tolerance <= 0
    /\ trace.iters = MaxIter /\ trace.evals = 0
    /\ \E v \in RoiSet : point[v] # original[ros_id_map[v] + 1]

\* C22: with a positive tolerance deform(n, tolerance) runs n iterations, or
\* ends directly after an iteration t with 2 <= t < n; the energy is evaluated
\* after every iteration but the n-th and compared from the second on, so the
\* call runs at least min(n, 2) and at most n iterations; it returns with every
\* ROI vertex at its solution
PositiveToleranceStops ==
    [][\A n \in 0..MaxIter, tol \in Tolerances :
          (tol > 0 /\ DeformCalled(n, tol)) =>
              /\ trace'.iters \in Min(n, 2)..n
              /\ trace'.evals = Min(trace'.iters, IF n > 0 THEN n - 1 ELSE 0)
              /\ trace'.iters < n => trace'.iters >= 2
              /\ RoiCommitted
              /\ ~need_preprocess']_vars

\* C22 witness: a deform has ended after the second of more iterations
PositiveToleranceStopsWitness ==
    /\ trace.op = "deform"
    /\ trace.iters = 2 /\ trace.evals = 2
    /\ MaxIter > 2
    /\ RoiSet \ HandleSet # {}

(***************************************************************************)
(* The matrix of the one-ring variant.                                     *)
(***************************************************************************)
\* w_ij + w_ji for the edge between v and w
TotalWeight(v, w) == edge_weight(<<w, v>>) + edge_weight(<<v, w>>)

\* row and column of the vertex v
Row(v) == ros_id_map[v] + 1

\* the row of v has the coefficient 1 on the diagonal and no other
ConstrainedRow(A, v) ==
    \A j \in 1..Len(A[Row(v)]) : A[Row(v)][j] = (IF j = Row(v) THEN 1 ELSE 0)

\* the row of v has -(w_ij + w_ji) in the column of every neighbour, their
\* sum on the diagonal, and nothing elsewhere
LaplacianRow(A, v) ==
    /\ \A w \in Adjacent(v) : w \in RosSet /\ Row(w) \in 1..Len(ros)
    /\ \A w \in Adjacent(v) : A[Row(v)][Row(w)] = -TotalWeight(v, w)
    /\ A[Row(v)][Row(v)] =
           SumOver([w \in Adjacent(v) |-> TotalWeight(v, w)], Adjacent(v))
    /\ \A j \in 1..Len(A[Row(v)]) :
           (j # Row(v) /\ \A w \in Adjacent(v) : j # Row(w)) => A[Row(v)][j] = 0
    /\ SumOver(A[Row(v)], 1..Len(A[Row(v)])) = 0

\* C23: in the matrix of the one-ring variant the row of a handle and of a ROS
\* vertex outside the ROI has the single coefficient 1, on the diagonal; the
\* row of a free vertex has -(w_ij + w_ji) for each neighbour j and the sum of
\* these weights on the diagonal, so it sums to zero, and every column is
\* below |ROS|
ArapMatrixRows ==
    (~need_preprocess /\ deformation_type = "ORIGINAL_ARAP") =>
        /\ Len(m_solver.A) = Len(ros)
        /\ \A v \in RosSet :
               /\ Len(m_solver.A[Row(v)]) = Len(ros)
               /\ IF v \in RoiSet \ HandleSet
                  THEN LaplacianRow(m_solver.A, v)
                  ELSE ConstrainedRow(m_solver.A, v)

\* C23 witness: a rebuild has assembled rows for a handle, a free vertex and a
\* ROS vertex outside the ROI
ArapMatrixRowsWitness ==
    /\ trace.rebuilt /\ ~need_preprocess
    /\ HandleSet # {}
    /\ RoiSet \ HandleSet # {}
    /\ RosSet \ RoiSet # {}
    /\ \E v \in RoiSet \ HandleSet : m_solver.A[Row(v)][Row(v)] > 1

(***************************************************************************)
(* The vertices whose ros id the global step, the local step and the       *)
(* energy look up, in both variants.                                       *)
(***************************************************************************)
\* CGAL::next_edge(h, polyhedron) of a halfedge with a facet
next_edge(h) ==
    CHOOSE n \in FacetHalfedges :
        /\ n[1] = h[2]
        /\ \E f \in Facets :
               {h, n} \subseteq { <<f[1], f[2]>>, <<f[2], f[3]>>, <<f[3], f[1]>> }

\* the vertices of the facets around vi: the loop over edge_around_facet
FacetVertices(vi) ==
    UNION { {h[1], h[2], next_edge(h)[2]} :
                h \in { g \in FacetHalfedges : g[1] = vi } }

\* original[..] and solution[..] are read for these vertices
PositionLookups(variant) ==
    RosSet \cup
    (IF variant = "SPOKES_AND_RIMS"
     THEN UNION { FacetVertices(vi) \cup Range(out_edges(vi)) : vi \in RosSet }
     ELSE UNION { Range(in_edges(vi)) : vi \in RosSet })

\* rot_mtr[..] is read for these vertices
RotationLookups(variant) ==
    RosSet \cup
    (IF variant = "SPOKES_AND_RIMS"
     THEN UNION { Range(out_edges(vi)) \cup
                  { next_edge(h)[2] :
                      h \in { g \in FacetHalfedges :
                                 g[1] = vi \/ g[2] = vi } } :
                  vi \in { v \in RosSet : IsFree(v) } }
     ELSE UNION { Range(in_edges(vi)) : vi \in { v \in RosSet : IsFree(v) } })

Variants == { "ORIGINAL_ARAP", "SPOKES_AND_RIMS" }

\* C24: from a rebuild on, when the global step, the local step and the
\* energy can run, every vertex whose position they read has a ros id below
\* the size of original and solution, and every vertex whose rotation they
\* read has a ros id below |ROS|, the size of the rotation array
LookupsInRange ==
    ~need_preprocess =>
        /\ Len(rot_mtr) = Len(ros)
        /\ \A variant \in Variants :
               /\ \A v \in PositionLookups(variant) :
                      /\ ros_id_map[v] \in 0..(Len(solution) - 1)
                      /\ ros_id_map[v] \in 0..(Len(original) - 1)
               /\ \A v \in RotationLookups(variant) :
                      ros_id_map[v] \in 0..(Len(rot_mtr) - 1)

\* C24 witness: deform has iterated, with the energy, on a region with a free
\* vertex next to a vertex outside the ROI, and with an outside ring
LookupsInRangeWitness ==
    /\ trace.op = "deform" /\ trace.iters > 1 /\ trace.evals > 0
    /\ \E v \in RoiSet \ HandleSet : Adjacent(v) \ RoiSet # {}
    /\ OutsideRing # {}
    /\ \E v \in PositionLookups(deformation_type) : v \notin RosSet

(***************************************************************************)
(* The vertices that are never in the ROI.                                 *)
(***************************************************************************)
\* the vertices no call of Spec inserts into the ROI
NeverRoi == Vertices \ Args

\* C25: a vertex that has never been in the ROI is stored at the position the
\* mesh was constructed with, whatever calls have run; it is never in the ROI
\* and no step, a rebuild with its write-back included, moves it
NeverRoiKeepsPosition ==
    \A v \in NeverRoi : ~is_roi(v) /\ point[v] = InitPoint[v]

\* C25 witness: a rebuild has run over a ros that held such vertices, after
\* an earlier rebuild and a deform that moved a ROI vertex
NeverRoiKeepsPositionWitness ==
    /\ trace.op = "preprocess" /\ trace.rebuilt
    /\ \E v \in RoiSet : point[v] # original[ros_id_map[v] + 1]
    /\ RosSet \cap NeverRoi # {}
    /\ OutsideRing \cap NeverRoi # {}

(***************************************************************************)
(* The calls that prepare, when the factorization fails.                   *)
(***************************************************************************)
\* the call starts with the flag set and its preprocess() returns false
PreprocessFails == need_preprocess /\ ~preprocess.ret

\* C26: a deform that starts with the flag set and whose preprocess() fails
\* runs its iterations all the same and leaves every ROI vertex at its
\* solution; translate, rotate and assign write their targets all the same;
\* none of the four returns anything, and the flag is clear afterwards
FailedPreprocessIgnored ==
    [][(PreprocessFails /\ trace'.op \in Deforming) =>
          /\ trace'.rebuilt /\ trace'.ret = "void"
          /\ ~need_preprocess' /\ ~m_solver'.ok
          /\ \A n \in 0..MaxFailureIter :
                 deform(n, 0) => trace'.iters = n /\ RoiCommitted
          /\ \A g \in Groups, t \in Translations :
                 translate(g, t) => GroupTranslated(g, t)
          /\ \A vd \in HandleSet, t \in Pos :
                 assign(vd, t) => solution'[ros_id_map'[vd] + 1] = t]_vars

\* C26 witness: a deform whose preprocess() failed has iterated and has
\* moved a ROI vertex of the mesh, with a handle in the other component
FailedPreprocessIgnoredWitness ==
    /\ trace.op = "deform" /\ trace.rebuilt /\ trace.iters > 0
    /\ ~m_solver.ok
    /\ HandleSet # {}
    /\ \E v \in RoiSet : point[v] # InitPoint[v]

=============================================================================
